---- MODULE Spec2Model ----
(***************************************************************************)
(* BybitClient (crypto_bot/chalicelib/exchanges/bybit.py): the retry loops *)
(* around the exchange calls, the fill matcher get_most_recent_trade and   *)
(* the valuation get_trade_value_usd.                                      *)
(*                                                                         *)
(* One public operation runs at a time (the program is single-threaded).   *)
(* A call is: Invoke (the caller enters the method, retries = 0), then one *)
(* step per iteration of the method's while loop (the loop test, the try   *)
(* body and the except clause that catches), then Return (the caller takes *)
(* the result).  The exchange is the environment: every exchange call      *)
(* draws its outcome and its payload from a small set.                     *)
(*                                                                         *)
(* Spec runs every method against an exchange that holds one of a few     *)
(* sample fill histories; SpecFills runs get_most_recent_trade and         *)
(* get_trade_value_usd of a connected client against every fill history    *)
(* within the bounds.                                                      *)
(*                                                                         *)
(* Numbers: amounts and costs are integers (lots, currency units); the     *)
(* result of get_trade_value_usd is kept in hundredths of a currency unit, *)
(* because round(x, 2) yields hundredths.                                  *)
(***************************************************************************)
EXTENDS Integers, Sequences, FiniteSets, TLC

\* ---- bounds of the model
MaxRetriesArg == 3
MaxFills == 3
MaxAmount == 2
MaxPrice == 1
MaxExchangeObjects == 3
\* the longest order comment
MaxCommentLen == 5

\* ---- constants of the program
\* max_retries: int=3, the default get_account_allocation leaves in force
\* when it calls get_most_recent_trade(symbol)
DefaultMaxRetries == 3

\* ---- Python values
None == [t |-> "None"]
PyBool(b) == [t |-> "bool", b |-> b]
Num(x) == [t |-> "num", v |-> x]
\* Decimal(str(x)): an arbitrary-precision decimal holding the number x
Decimal(x) == [t |-> "Decimal", v |-> x]
Tuple(x, y) == [t |-> "tuple", a |-> x, b |-> y]
List(l) == [t |-> "list", l |-> l]
Order(i) == [t |-> "order", id |-> i]
Dict(d) == [t |-> "dict", d |-> d]

Pending == [kind |-> "pending"]
Returns(v) == [kind |-> "return", val |-> v]
Raises(e) == [kind |-> "raise", exc |-> e]

\* ---- the outcome of one exchange call: a payload, or one of ccxt's errors.
\* RequestTimeout is a subclass of NetworkError; NetworkError and
\* ExchangeError are disjoint; "Exception" is any other exception.
\* an `except ccxt.NetworkError` that also catches the exchange's rejections
IsNetworkErrorOrRejection(e) == e \in {"NetworkError", "RequestTimeout", "ExchangeError"}

\* `except ccxt.NetworkError`
IsNetworkError(e) == e \in {"NetworkError", "RequestTimeout"}

\* an `except` that takes every remaining error for a rejection
IsAnyOtherError(e) == e \notin {"ok", "NetworkError", "RequestTimeout"}

\* `except ccxt.ExchangeError`
IsExchangeError(e) == e = "ExchangeError"
CallOutcomes == {"ok", "NetworkError", "ExchangeError", "Exception"}
OrderOutcomes == CallOutcomes \cup {"RequestTimeout"}

\* a loop that runs once more than max_retries allows
LoopTestOffByOne(r, n) == r <= n

\* `while retries < max_retries`
LoopTest(r, n) == r < n

\* a handler that does not back off
NoSleep(s) == s

\* time.sleep(3): one more backoff sleep
time_sleep(s) == s + 1

\* `e == ccxt.RequestTimeout`: an exception instance compared with a class
\* object; exceptions do not define __eq__, so this is object identity.
EqRequestTimeout(e) == FALSE

\* ---- fills
Sides == {"buy", "sell"}
Costs == {1, 2}
Fills == [side : Sides, amount : 0..MaxAmount, cost : Costs]
RECURSIVE SeqsUpTo(_, _)
SeqsUpTo(S, n) ==
    IF n = 0 THEN {<<>>}
    ELSE LET shorter == SeqsUpTo(S, n - 1)
         IN  shorter \cup {Append(s, x) : s \in {t \in shorter : Len(t) = n - 1}, x \in S}
Histories == SeqsUpTo(Fills, MaxFills)

\* trades[:i], the oldest fills instead of the newest
NegSlicePrefix(s, i) == SubSeq(s, 1, (IF i > Len(s) THEN Len(s) ELSE i))

\* trades[-i - 1:], the slice that starts at the fill under the scan
NegSliceInclusive(s, i) ==
    SubSeq(s, (IF Len(s) - i < 1 THEN 1 ELSE Len(s) - i), Len(s))

\* trades[-i:] for i >= 0: the whole list when i = 0 (-0 is 0), else the
\* last min(i, len) elements
NegSlice(s, i) ==
    IF i = 0 THEN s
    ELSE SubSeq(s, (IF Len(s) - i + 1 < 1 THEN 1 ELSE Len(s) - i + 1), Len(s))

\* the scan without its `else: return trades`: the method falls through
RECURSIVE ScanReversedNoElse(_, _, _)
ScanReversedNoElse(ts, i, prev_trade_side) ==
    IF i = Len(ts) THEN <<>>
    ELSE LET side == ts[Len(ts) - i].side
         IN  IF prev_trade_side = "buy" /\ side = "sell" THEN NegSlice(ts, i)
             ELSE IF side = "buy" THEN ScanReversedNoElse(ts, i + 1, "buy")
             ELSE IF side = "sell" THEN ScanReversedNoElse(ts, i + 1, "sell")
             ELSE ScanReversedNoElse(ts, i + 1, prev_trade_side)

\* for i, trade in enumerate(reversed(trades)): ... else: return trades
RECURSIVE ScanReversed(_, _, _)
ScanReversed(ts, i, prev_trade_side) ==
    IF i = Len(ts) THEN ts
    ELSE LET side == ts[Len(ts) - i].side
         IN  IF prev_trade_side = "buy" /\ side = "sell" THEN NegSlice(ts, i)
             ELSE IF side = "buy" THEN ScanReversed(ts, i + 1, "buy")
             ELSE IF side = "sell" THEN ScanReversed(ts, i + 1, "sell")
             ELSE ScanReversed(ts, i + 1, prev_trade_side)

\* the try body of get_most_recent_trade applied to the fetched fills
MostRecentTrade(ts) ==
    IF ts # <<>> THEN ScanReversed(ts, 0, "None") ELSE <<>>

\* ---- valuation
\* for trade in trades: the three running sums after fills i..len
RECURSIVE Tally(_, _, _)
Tally(ts, i, acc) ==
    IF i > Len(ts) THEN acc
    ELSE LET trade == ts[i]
             amount == trade.amount
         IN  IF trade.side = "buy"
             THEN Tally(ts, i + 1, [amount_owned |-> acc.amount_owned + amount,
                                    amount_bought |-> acc.amount_bought + amount,
                                    trade_value_usd |-> acc.trade_value_usd + trade.cost])
             ELSE IF trade.side = "sell"
             THEN Tally(ts, i + 1, [acc EXCEPT !.amount_owned = @ - amount])
             ELSE Tally(ts, i + 1, acc)

Sums(ts) == Tally(ts, 1, [amount_owned |-> 0, amount_bought |-> 0, trade_value_usd |-> 0])

\* round(p / q, 1) in hundredths: one decimal place instead of two
Round1(p, q) ==
    LET f == (10 * p) \div q
        r == (10 * p) - f * q
    IN  10 * (IF 2 * r < q THEN f
              ELSE IF 2 * r > q THEN f + 1
              ELSE IF f % 2 = 0 THEN f ELSE f + 1)

\* round(p / q, 2) in hundredths, q > 0: the nearest hundredth, an exact
\* tie going to the even one (Python's round).  Within the bounds a tie is
\* an odd multiple of 1/8, which a float holds exactly.
Round2(p, q) ==
    LET f == (100 * p) \div q
        r == (100 * p) - f * q
    IN  IF 2 * r < q THEN f
        ELSE IF 2 * r > q THEN f + 1
        ELSE IF f % 2 = 0 THEN f ELSE f + 1

\* a method without its `if amount_bought == 0: return 0`
NoZeroGuard(s) == FALSE

\* `if amount_bought == 0`
ZeroGuard(s) == s.amount_bought = 0

\* get_trade_value_usd, in hundredths of a currency unit
get_trade_value_usd(ts) ==
    LET s == Sums(ts)
    IN  IF ZeroGuard(s) THEN 0
        ELSE s.trade_value_usd * Round2(s.amount_owned, s.amount_bought)

\* how a call of get_trade_value_usd ends: with its value, or with the
\* ZeroDivisionError of amount_owned / amount_bought
get_trade_value_usd_outcome(ts) ==
    LET s == Sums(ts)
    IN  IF ~ZeroGuard(s) /\ s.amount_bought = 0 THEN Raises("ZeroDivisionError")
        ELSE Returns(Num(get_trade_value_usd(ts)))

\* ---- what the exchange answers
Prices == {None} \cup {Num(p) : p \in 1..MaxPrice}
Tickers == [bid : Prices, ask : Prices, last : Prices]
\* balance[currency]: no entry, an entry without "total", an entry with it
BalanceEntries == {[present |-> FALSE, total |-> None],
                   [present |-> TRUE, total |-> None],
                   [present |-> TRUE, total |-> Num(1)]}
\* balance["free"][base_currency], in hundredths; None when the key is missing
FreeFunds == {None, Num(100)}

Currencies == {"USD", "USDT"}
TradeSymbols == {"BTC/USDT", "ETH/USDT"}
Symbols == {"BTC/USDT", "", "not-a-str"}
BTC == [symbol |-> "BTC/USDT", currency |-> "BTC"]
ETH == [symbol |-> "ETH/USDT", currency |-> "ETH"]

\* trade_processing.get_active_strategy_configs(): the active strategies, a
\* list of {symbol, currency} records
get_active_strategy_configs == {<<>>, <<BTC>>, <<BTC, ETH>>}

\* the fill histories the exchange holds in the runs of Spec
SampleHistories ==
    {<<>>,
     <<[side |-> "buy", amount |-> 2, cost |-> 2]>>,
     <<[side |-> "buy", amount |-> 2, cost |-> 2], [side |-> "sell", amount |-> 1, cost |-> 1]>>}

\* ---- state
VARIABLES
    client,         \* self.client: 0 is None, k > 0 the k-th exchange object
    markets,        \* self.markets: 0 is unset, k > 0 what the k-th object loaded
    base_currency,  \* self.base_currency
    exchanges,      \* exchange objects constructed so far
    fills,          \* the exchange's fill history of each symbol, oldest first
    open_orders,    \* the exchange's open orders for the symbol
    op,             \* the method being run, "none" when the caller is idle
    pc,             \* "idle", "loop" (at the while test), "for" (in the
                    \* strategies loop of get_account_allocation), "done"
    symbol,         \* the symbol argument
    max_retries,    \* the max_retries argument
    retries,        \* the local retries
    trades,         \* the fill list fetched by, or passed to, the method
    allocation_dict,\* get_account_allocation's allocation_dict
    active_configs, \* get_account_allocation's active_configs
    config_i,       \* the position of the strategies loop in active_configs
    sub_retries,    \* retries of the get_most_recent_trade call in that loop
    ret,            \* what the call gave its caller
    attempts,       \* history: the method's own exchange requests in this call
    sleeps,         \* history: time.sleep(3) calls in this call
    calls,          \* history: all exchange requests in this call
    log,            \* history: how the try body of each pass of the loop ended
    payload,        \* history: what the method's latest request was answered
    sub_failed,     \* history: a request of a nested call failed
    sub_last,       \* history: how the latest request of a nested call ended
    timeout_at,     \* history: the attempt that timed out with an order open
    app_op,         \* the entry point of app.py being run, "none" when none is
    app_pc,         \* the entry point: "idle", the call it makes next, "done"
    order_comment,  \* trade_out.get("order_comment"), a tuple of characters
    connect_ret,    \* what exchange.connect(...) returned to the handler
    app_calls,      \* history: the calls the handler made to its collaborators
    app_ret         \* how the handler ended

conn == <<client, markets, exchanges>>
args == <<op, symbol, max_retries>>
hist == <<attempts, sleeps, calls, log>>
alloc == <<allocation_dict, active_configs, config_i, sub_retries, sub_failed, sub_last>>
ords == <<open_orders, timeout_at>>
handler == <<app_op, app_pc, order_comment, connect_ret, app_calls, app_ret>>
vars == <<client, markets, base_currency, exchanges, fills, open_orders, op, pc,
          symbol, max_retries, retries, trades, allocation_dict, active_configs,
          config_i, sub_retries, ret, attempts, sleeps, calls, log, sub_failed,
          sub_last, timeout_at, payload, app_op, app_pc, order_comment, connect_ret,
          app_calls, app_ret>>

RetryOps == {"connect", "create_limit_order", "get_total_currency", "get_bid_ask",
             "get_last_price", "get_account_allocation", "get_most_recent_trade"}
Ops == RetryOps \cup {"get_trade_value_usd"}
FillOps == {"get_most_recent_trade", "get_trade_value_usd"}

NoDict == [k \in {} |-> None]

\* the caller is idle
Idle ==
    /\ op = "none"
    /\ pc = "idle"
    /\ symbol = "BTC/USDT"
    /\ max_retries = 0
    /\ retries = 0
    /\ trades = <<>>
    /\ allocation_dict = NoDict
    /\ active_configs = <<>>
    /\ config_i = 0
    /\ sub_retries = 0
    /\ ret = Pending
    /\ attempts = 0
    /\ sleeps = 0
    /\ calls = 0
    /\ log = <<>>
    /\ sub_failed = FALSE
    /\ payload = None
    /\ sub_last = "no call"
    /\ open_orders = <<>>
    /\ timeout_at = 0

\* no request is being handled
AppIdle ==
    /\ app_op = "none"
    /\ app_pc = "idle"
    /\ order_comment = <<>>
    /\ connect_ret = Pending
    /\ app_calls = <<>>
    /\ app_ret = Pending

\* BybitClient.__init__(base_currency), base_currency not empty
Init ==
    /\ client = 0
    /\ markets = 0
    /\ base_currency \in Currencies
    /\ exchanges = 0
    /\ fills \in [TradeSymbols -> SampleHistories]
    /\ Idle
    /\ AppIdle

\* a connected client and an exchange holding any fill history of BTC/USDT
InitFills ==
    /\ client = 1
    /\ markets = 1
    /\ base_currency = "USDT"
    /\ exchanges = 1
    /\ \E h \in Histories : fills = [s \in TradeSymbols |-> IF s = "BTC/USDT" THEN h ELSE <<>>]
    /\ Idle
    /\ AppIdle

\* the caller enters method o: retries = 0.  The arguments: max_retries n;
\* the symbol s (ticker methods also get the empty string and a value that
\* is no string); for get_trade_value_usd a fill list of the exchange, whole
\* or as get_most_recent_trade cuts it.  k is the number of orders the
\* exchange holds open for the symbol when create_limit_order begins.
InvokeOp(o) ==
    /\ pc = "idle"
    /\ \E n \in 0..MaxRetriesArg, s \in Symbols \cup TradeSymbols, k \in 0..1 :
        /\ o = "connect" => exchanges + n <= MaxExchangeObjects
        /\ s \notin TradeSymbols => o \in {"get_bid_ask", "get_last_price"}
        /\ s # "BTC/USDT" => o \in {"get_bid_ask", "get_last_price", "get_most_recent_trade"}
        /\ o = "get_trade_value_usd" => n = 0
        /\ k # 0 => o = "create_limit_order"
        /\ max_retries' = n
        /\ symbol' = s
        /\ open_orders' = [i \in 1..k |-> i]
    /\ trades' \in (IF o = "get_trade_value_usd"
                    THEN {fills[s] : s \in TradeSymbols} \cup {MostRecentTrade(fills[s]) : s \in TradeSymbols}
                    ELSE {<<>>})
    /\ op' = o
    /\ pc' = "loop"
    /\ UNCHANGED <<handler, conn, base_currency, fills, retries, alloc, ret, hist, timeout_at, payload>>

Invoke == \E o \in Ops : InvokeOp(o)
InvokeFills == \E o \in FillOps : InvokeOp(o)

\* the caller takes the result
Return ==
    /\ pc = "done"
    /\ op' = "none"
    /\ pc' = "idle"
    /\ symbol' = "BTC/USDT"
    /\ max_retries' = 0
    /\ retries' = 0
    /\ trades' = <<>>
    /\ allocation_dict' = NoDict
    /\ active_configs' = <<>>
    /\ config_i' = 0
    /\ sub_retries' = 0
    /\ ret' = Pending
    /\ attempts' = 0
    /\ sleeps' = 0
    /\ calls' = 0
    /\ log' = <<>>
    /\ sub_failed' = FALSE
    /\ payload' = None
    /\ sub_last' = "no call"
    /\ open_orders' = <<>>
    /\ timeout_at' = 0
    /\ UNCHANGED <<handler, conn, base_currency, fills>>

\* a connect that stores the exchange object before it loads the markets
connect_stores_client_first ==
    /\ op = "connect" /\ pc = "loop"
    /\ IF retries < max_retries
       THEN \E o \in CallOutcomes :
               /\ exchanges' = exchanges + 1
               /\ client' = exchanges'
               /\ markets' = IF o = "ok" THEN exchanges' ELSE markets
               /\ attempts' = attempts + 1
               /\ calls' = calls + 1
               /\ log' = Append(log, o)
               /\ IF o = "ok"
                  THEN /\ ret' = Returns(PyBool(TRUE))
                       /\ pc' = "done"
                       /\ UNCHANGED <<retries, sleeps>>
                  ELSE IF o \in {"NetworkError", "RequestTimeout"}
                  THEN /\ sleeps' = sleeps + 1
                       /\ retries' = retries + 1
                       /\ UNCHANGED <<ret, pc>>
                  ELSE /\ ret' = IF o = "ExchangeError" THEN Returns(PyBool(FALSE)) ELSE Raises(o)
                       /\ pc' = "done"
                       /\ UNCHANGED <<retries, sleeps>>
       ELSE /\ ret' = Returns(PyBool(FALSE))
            /\ pc' = "done"
            /\ UNCHANGED <<conn, retries, hist>>
    /\ UNCHANGED <<handler, payload, base_currency, fills, args, trades, alloc, ords>>

\* BybitClient.connect: one pass of `while retries < max_retries`
connect ==
    /\ op = "connect" /\ pc = "loop"
    /\ IF LoopTest(retries, max_retries)
       THEN \/ \* the credential provider raises: nothing is constructed
               /\ ret' = Raises("Exception")
               /\ pc' = "done"
               /\ log' = Append(log, "Exception")
               /\ UNCHANGED <<conn, retries, attempts, sleeps, calls>>
            \/ \E o \in CallOutcomes :
               /\ exchanges' = exchanges + 1
               /\ attempts' = attempts + 1
               /\ calls' = calls + 1
               /\ log' = Append(log, o)
               /\ IF o = "ok"
                  THEN /\ markets' = exchanges'
                       /\ client' = exchanges'
                       /\ ret' = Returns(PyBool(TRUE))
                       /\ pc' = "done"
                       /\ UNCHANGED <<retries, sleeps>>
                  ELSE IF IsNetworkError(o)
                  THEN /\ sleeps' = time_sleep(sleeps)
                       /\ retries' = retries + 1
                       /\ UNCHANGED <<client, markets, ret, pc>>
                  ELSE IF IsExchangeError(o)
                  THEN /\ ret' = Returns(PyBool(FALSE))
                       /\ pc' = "done"
                       /\ UNCHANGED <<client, markets, retries, sleeps>>
                  ELSE /\ ret' = Raises(o)
                       /\ pc' = "done"
                       /\ UNCHANGED <<client, markets, retries, sleeps>>
       ELSE /\ ret' = Returns(PyBool(FALSE))
            /\ pc' = "done"
            /\ UNCHANGED <<conn, retries, hist>>
    /\ UNCHANGED <<handler, payload, base_currency, fills, args, trades, alloc, ords>>

\* what the first line of a try body does with self.client: None has no
\* attribute to call, an AttributeError that `except Exception` catches
NoClient == client = 0

\* BybitClient.create_limit_order: one pass of `while retries < max_retries`
create_limit_order ==
    /\ op = "create_limit_order" /\ pc = "loop"
    /\ IF LoopTest(retries, max_retries)
       THEN IF NoClient
            THEN /\ ret' = Raises("AttributeError")
                 /\ pc' = "done"
                 /\ log' = Append(log, "AttributeError")
                 /\ UNCHANGED <<retries, attempts, sleeps, calls, ords>>
            ELSE \E o \in OrderOutcomes, landed \in BOOLEAN :
                 \* the exchange books the order when it answers, and may have
                 \* booked it when the request timed out
                 /\ landed \in (IF o = "ok" THEN {TRUE}
                                ELSE IF o = "RequestTimeout" THEN BOOLEAN ELSE {FALSE})
                 /\ open_orders' = IF landed THEN Append(open_orders, Len(open_orders) + 1)
                                   ELSE open_orders
                 /\ attempts' = attempts + 1
                 /\ log' = Append(log, o)
                 /\ timeout_at' = IF timeout_at = 0 /\ o = "RequestTimeout" /\ open_orders' # <<>>
                                  THEN attempts' ELSE timeout_at
                 /\ IF o = "ok"
                    THEN /\ ret' = Returns(Order(Len(open_orders')))
                         /\ pc' = "done"
                         /\ calls' = calls + 1
                         /\ UNCHANGED <<retries, sleeps>>
                    ELSE IF IsNetworkError(o)
                    THEN IF EqRequestTimeout(o) /\ open_orders' # <<>>
                         THEN /\ ret' = Returns(Order(open_orders'[1]))
                              /\ pc' = "done"
                              /\ calls' = calls + 2
                              /\ UNCHANGED <<retries, sleeps>>
                         ELSE /\ sleeps' = time_sleep(sleeps)
                              /\ retries' = retries + 1
                              /\ calls' = calls + (IF EqRequestTimeout(o) THEN 2 ELSE 1)
                              /\ UNCHANGED <<ret, pc>>
                    ELSE IF IsExchangeError(o)
                    THEN /\ ret' = Returns(None)
                         /\ pc' = "done"
                         /\ calls' = calls + 1
                         /\ UNCHANGED <<retries, sleeps>>
                    ELSE /\ ret' = Raises(o)
                         /\ pc' = "done"
                         /\ calls' = calls + 1
                         /\ UNCHANGED <<retries, sleeps>>
       ELSE /\ ret' = Returns(None)
            /\ pc' = "done"
            /\ UNCHANGED <<retries, hist, ords>>
    /\ UNCHANGED <<handler, payload, conn, base_currency, fills, args, trades, alloc>>

\* a lookup that answers a total of 0 for a currency the balance lacks
total_or_zero(balance) ==
    Decimal(IF balance.present /\ balance.total # None THEN balance.total.v ELSE 0)

\* what get_total_currency makes of the balance it fetched: the total of
\* the currency's entry (0 if the entry has none), None without an entry
total_of(balance) ==
    IF balance.present
    THEN Decimal(IF balance.total = None THEN 0 ELSE balance.total.v)
    ELSE None

\* BybitClient.get_total_currency: one pass of `while retries < max_retries`
get_total_currency ==
    /\ op = "get_total_currency" /\ pc = "loop"
    /\ IF LoopTest(retries, max_retries)
       THEN IF NoClient
            THEN \* the handler's own self.client.id raises in its turn
                 /\ ret' = Raises("AttributeError")
                 /\ pc' = "done"
                 /\ log' = Append(log, "AttributeError")
                 /\ UNCHANGED <<retries, attempts, sleeps, calls, payload>>
            ELSE \E o \in CallOutcomes, balance \in BalanceEntries :
                 /\ attempts' = attempts + 1
                 /\ calls' = calls + 1
                 /\ log' = Append(log, o)
                 /\ payload' = IF o = "ok" THEN balance ELSE payload
                 /\ IF o = "ok"
                    THEN /\ ret' = Returns(total_of(balance))
                         /\ pc' = "done"
                         /\ UNCHANGED <<retries, sleeps>>
                    ELSE IF IsNetworkError(o)
                    THEN /\ sleeps' = time_sleep(sleeps)
                         /\ retries' = retries + 1
                         /\ UNCHANGED <<ret, pc>>
                    ELSE IF IsExchangeError(o)
                    THEN /\ ret' = Returns(None)
                         /\ pc' = "done"
                         /\ UNCHANGED <<retries, sleeps>>
                    ELSE /\ ret' = Raises(o)
                         /\ pc' = "done"
                         /\ UNCHANGED <<retries, sleeps>>
       ELSE /\ ret' = Returns(None)
            /\ pc' = "done"
            /\ UNCHANGED <<retries, hist, payload>>
    /\ UNCHANGED <<handler, conn, base_currency, fills, args, trades, alloc, ords>>

\* Decimal(str(x)) if x is not None else None
DecimalOrNone(x) == IF x = None THEN None ELSE Decimal(x.v)

\* a validation that tests the connection and not the symbol
ValidClientOnly == client # 0

\* the two isinstance tests that open the try bodies of get_bid_ask and
\* get_last_price
ValidInputs == client # 0 /\ symbol # "not-a-str"

\* BybitClient.get_bid_ask: one pass of `while retries < max_retries`
get_bid_ask ==
    /\ op = "get_bid_ask" /\ pc = "loop"
    /\ IF LoopTest(retries, max_retries)
       THEN IF ~ValidInputs
            THEN /\ ret' = Raises("ValueError")
                 /\ pc' = "done"
                 /\ log' = Append(log, "ValueError")
                 /\ UNCHANGED <<retries, attempts, sleeps, calls, payload>>
            ELSE \E o \in CallOutcomes, ticker \in Tickers :
                 /\ attempts' = attempts + 1
                 /\ calls' = calls + 1
                 /\ log' = Append(log, o)
                 /\ payload' = IF o = "ok" THEN ticker ELSE payload
                 /\ IF o = "ok"
                    THEN /\ ret' = Returns(Tuple(DecimalOrNone(ticker.bid),
                                                 DecimalOrNone(ticker.ask)))
                         /\ pc' = "done"
                         /\ UNCHANGED <<retries, sleeps>>
                    ELSE IF IsNetworkError(o)
                    THEN /\ sleeps' = time_sleep(sleeps)
                         /\ retries' = retries + 1
                         /\ UNCHANGED <<ret, pc>>
                    ELSE IF IsExchangeError(o)
                    THEN /\ ret' = Returns(Tuple(None, None))
                         /\ pc' = "done"
                         /\ UNCHANGED <<retries, sleeps>>
                    ELSE /\ ret' = Raises(o)
                         /\ pc' = "done"
                         /\ UNCHANGED <<retries, sleeps>>
       ELSE /\ ret' = Returns(Tuple(None, None))
            /\ pc' = "done"
            /\ UNCHANGED <<retries, hist, payload>>
    /\ UNCHANGED <<handler, conn, base_currency, fills, args, trades, alloc, ords>>

\* a get_last_price that drops the connection when the exchange rejects
get_last_price_drops_client ==
    /\ op = "get_last_price" /\ pc = "loop"
    /\ IF retries < max_retries
       THEN IF ~ValidInputs
            THEN /\ ret' = Raises("ValueError")
                 /\ pc' = "done"
                 /\ log' = Append(log, "ValueError")
                 /\ UNCHANGED <<retries, attempts, sleeps, calls, payload, conn>>
            ELSE \E o \in CallOutcomes, ticker \in Tickers :
                 /\ attempts' = attempts + 1
                 /\ calls' = calls + 1
                 /\ log' = Append(log, o)
                 /\ payload' = IF o = "ok" THEN ticker ELSE payload
                 /\ client' = IF o = "ExchangeError" THEN 0 ELSE client
                 /\ UNCHANGED <<markets, exchanges>>
                 /\ IF o = "ok"
                    THEN /\ ret' = Returns(DecimalOrNone(ticker.last))
                         /\ pc' = "done"
                         /\ UNCHANGED <<retries, sleeps>>
                    ELSE IF o \in {"NetworkError", "RequestTimeout"}
                    THEN /\ sleeps' = sleeps + 1
                         /\ retries' = retries + 1
                         /\ UNCHANGED <<ret, pc>>
                    ELSE /\ ret' = IF o = "ExchangeError" THEN Returns(None) ELSE Raises(o)
                         /\ pc' = "done"
                         /\ UNCHANGED <<retries, sleeps>>
       ELSE /\ ret' = Returns(None)
            /\ pc' = "done"
            /\ UNCHANGED <<retries, hist, payload, conn>>
    /\ UNCHANGED <<handler, base_currency, fills, args, trades, alloc, ords>>

\* BybitClient.get_last_price: one pass of `while retries < max_retries`
get_last_price ==
    /\ op = "get_last_price" /\ pc = "loop"
    /\ IF LoopTest(retries, max_retries)
       THEN IF ~ValidInputs
            THEN /\ ret' = Raises("ValueError")
                 /\ pc' = "done"
                 /\ log' = Append(log, "ValueError")
                 /\ UNCHANGED <<retries, attempts, sleeps, calls, payload>>
            ELSE \E o \in CallOutcomes, ticker \in Tickers :
                 /\ attempts' = attempts + 1
                 /\ calls' = calls + 1
                 /\ log' = Append(log, o)
                 /\ payload' = IF o = "ok" THEN ticker ELSE payload
                 /\ IF o = "ok"
                    THEN /\ ret' = Returns(DecimalOrNone(ticker.last))
                         /\ pc' = "done"
                         /\ UNCHANGED <<retries, sleeps>>
                    ELSE IF IsNetworkError(o)
                    THEN /\ sleeps' = time_sleep(sleeps)
                         /\ retries' = retries + 1
                         /\ UNCHANGED <<ret, pc>>
                    ELSE IF IsExchangeError(o)
                    THEN /\ ret' = Returns(None)
                         /\ pc' = "done"
                         /\ UNCHANGED <<retries, sleeps>>
                    ELSE /\ ret' = Raises(o)
                         /\ pc' = "done"
                         /\ UNCHANGED <<retries, sleeps>>
       ELSE /\ ret' = Returns(None)
            /\ pc' = "done"
            /\ UNCHANGED <<retries, hist, payload>>
    /\ UNCHANGED <<handler, conn, base_currency, fills, args, trades, alloc, ords>>

\* a pass that lets ccxt.NetworkError out to the caller instead of going round
get_most_recent_trade_pass_no_retry(r, n, o, h) ==
    IF r < n
    THEN IF o = "ok" THEN [kind |-> "out", ret |-> Returns(List(MostRecentTrade(h)))]
         ELSE [kind |-> "out", ret |-> Raises(o)]
    ELSE [kind |-> "out", ret |-> Returns(None)]

\* BybitClient.get_most_recent_trade: one pass of `while retries <
\* max_retries` with r retries so far, when fetch_my_trades ends as o and,
\* if it answers, answers h.  "again": the loop goes round; else what the
\* method gives its caller (falling out of the loop returns None).
get_most_recent_trade_pass(r, n, o, h) ==
    IF LoopTest(r, n)
    THEN IF o = "ok" THEN [kind |-> "out", ret |-> Returns(List(MostRecentTrade(h)))]
         ELSE IF IsNetworkError(o) THEN [kind |-> "again", ret |-> Pending]
         ELSE IF IsExchangeError(o) THEN [kind |-> "out", ret |-> Raises(o)]
         ELSE [kind |-> "out", ret |-> Raises(o)]
    ELSE [kind |-> "out", ret |-> Returns(None)]

\* the ways self.client.fetch_my_trades(symbol) can end
FetchOutcomes(r, n) ==
    IF LoopTest(r, n) THEN (IF NoClient THEN {"AttributeError"} ELSE CallOutcomes)
    ELSE {"no call"}

\* get_most_recent_trade called by the caller
get_most_recent_trade ==
    /\ op = "get_most_recent_trade" /\ pc = "loop"
    /\ \E o \in FetchOutcomes(retries, max_retries) :
        LET entered == LoopTest(retries, max_retries)
            made == entered /\ ~NoClient
            p == get_most_recent_trade_pass(retries, max_retries, o, fills[symbol])
        IN  /\ attempts' = attempts + (IF made THEN 1 ELSE 0)
            /\ calls' = calls + (IF made THEN 1 ELSE 0)
            /\ log' = IF entered THEN Append(log, o) ELSE log
            /\ trades' = IF made /\ o = "ok" THEN fills[symbol] ELSE trades
            /\ IF p.kind = "again"
               THEN /\ sleeps' = time_sleep(sleeps)
                    /\ retries' = retries + 1
                    /\ UNCHANGED <<ret, pc>>
               ELSE /\ ret' = p.ret
                    /\ pc' = "done"
                    /\ UNCHANGED <<retries, sleeps>>
    /\ UNCHANGED <<handler, payload, conn, base_currency, fills, args, alloc, ords>>

\* get_trade_value_usd called by the caller
call_get_trade_value_usd ==
    /\ op = "get_trade_value_usd" /\ pc = "loop"
    /\ ret' = get_trade_value_usd_outcome(trades)
    /\ pc' = "done"
    /\ UNCHANGED <<handler, payload, conn, base_currency, fills, args, retries, trades, alloc, hist, ords>>

\* BybitClient.get_account_allocation: one pass of `while retries <
\* max_retries` up to the strategies loop
get_account_allocation ==
    /\ op = "get_account_allocation" /\ pc = "loop"
    /\ IF LoopTest(retries, max_retries)
       THEN IF NoClient
            THEN /\ ret' = Raises("AttributeError")
                 /\ pc' = "done"
                 /\ log' = Append(log, "AttributeError")
                 /\ UNCHANGED <<retries, attempts, sleeps, calls, payload, allocation_dict, active_configs, config_i>>
            ELSE \E o \in CallOutcomes, available_funds_usd \in FreeFunds,
                    configs \in get_active_strategy_configs :
                 /\ attempts' = attempts + 1
                 /\ calls' = calls + 1
                 /\ log' = Append(log, o)
                 /\ payload' = IF o = "ok" THEN available_funds_usd ELSE payload
                 /\ IF o = "ok"
                    THEN /\ allocation_dict' = ("USD" :> available_funds_usd)
                         /\ active_configs' = configs
                         /\ IF configs = <<>>
                            THEN /\ ret' = Returns(Dict(allocation_dict'))
                                 /\ pc' = "done"
                                 /\ config_i' = 0
                            ELSE /\ pc' = "for"
                                 /\ config_i' = 1
                                 /\ ret' = ret
                         /\ UNCHANGED <<retries, sleeps>>
                    ELSE IF IsNetworkError(o)
                    THEN /\ sleeps' = time_sleep(sleeps)
                         /\ retries' = retries + 1
                         /\ UNCHANGED <<ret, pc, allocation_dict, active_configs, config_i>>
                    ELSE IF IsExchangeError(o)
                    THEN /\ ret' = Returns(None)
                         /\ pc' = "done"
                         /\ UNCHANGED <<retries, sleeps, allocation_dict, active_configs, config_i>>
                    ELSE /\ ret' = Raises(o)
                         /\ pc' = "done"
                         /\ UNCHANGED <<retries, sleeps, allocation_dict, active_configs, config_i>>
       ELSE /\ ret' = Returns(None)
            /\ pc' = "done"
            /\ UNCHANGED <<retries, hist, payload, allocation_dict, active_configs, config_i>>
    /\ UNCHANGED <<handler, conn, base_currency, fills, args, trades, sub_retries, sub_failed,
                   sub_last, ords>>

\* the strategies loop of get_account_allocation: one pass of the loop of
\* the get_most_recent_trade(symbol) it calls for active_configs[config_i],
\* and, when that call is over, the rest of the strategy's turn
get_account_allocation_strategy ==
    /\ op = "get_account_allocation" /\ pc = "for"
    /\ \E o \in FetchOutcomes(sub_retries, DefaultMaxRetries) :
        LET config == active_configs[config_i]
            made == LoopTest(sub_retries, DefaultMaxRetries)
            p == get_most_recent_trade_pass(sub_retries, DefaultMaxRetries, o,
                                            fills[config.symbol])
        IN  /\ calls' = calls + (IF made THEN 1 ELSE 0)
            /\ sub_failed' = (sub_failed \/ (made /\ o # "ok"))
            /\ sub_last' = IF made THEN o ELSE sub_last
            /\ IF p.kind = "again"
               THEN /\ sleeps' = time_sleep(sleeps)
                    /\ sub_retries' = sub_retries + 1
                    /\ UNCHANGED <<ret, pc, allocation_dict, config_i, retries>>
               ELSE IF p.ret.kind = "raise"
               THEN \* caught by get_account_allocation's own except clauses
                    IF IsNetworkError(p.ret.exc)
                    THEN /\ sleeps' = time_sleep(sleeps)
                         /\ retries' = retries + 1
                         /\ pc' = "loop"
                         /\ sub_retries' = 0
                         /\ UNCHANGED <<ret, allocation_dict, config_i>>
                    ELSE /\ ret' = IF IsExchangeError(p.ret.exc) THEN Returns(None) ELSE p.ret
                         /\ pc' = "done"
                         /\ UNCHANGED <<sleeps, sub_retries, allocation_dict, config_i, retries>>
               ELSE LET got == p.ret.val
                        truthy == got # None /\ got.l # <<>>
                        value == IF truthy THEN Num(get_trade_value_usd(got.l)) ELSE Num(0)
                    IN  /\ allocation_dict' = (config.currency :> value) @@ allocation_dict
                        /\ sub_retries' = 0
                        /\ sleeps' = sleeps
                        /\ retries' = retries
                        /\ IF config_i = Len(active_configs)
                           THEN /\ ret' = Returns(Dict(allocation_dict'))
                                /\ pc' = "done"
                                /\ config_i' = config_i
                           ELSE /\ config_i' = config_i + 1
                                /\ UNCHANGED <<ret, pc>>
    /\ UNCHANGED <<handler, payload, conn, base_currency, fills, args, trades, active_configs,
                   attempts, log, ords>>

Next ==
    \/ Invoke
    \/ Return
    \/ connect
    \/ create_limit_order
    \/ get_total_currency
    \/ get_bid_ask
    \/ get_last_price
    \/ get_account_allocation
    \/ get_account_allocation_strategy
    \/ get_most_recent_trade
    \/ call_get_trade_value_usd

Spec == Init /\ [][Next]_vars

\* the fill matcher and the valuation over every fill history
NextFills ==
    \/ InvokeFills
    \/ Return
    \/ get_most_recent_trade
    \/ call_get_trade_value_usd

SpecFills == InitFills /\ [][NextFills]_vars

\* ---- app.py: the receive_trade_signals endpoint

\* the characters of an order comment
Letters == {"s", "S", "t", "T", "o", "p", "x"}

\* the order comments of the processed trade signals
Comments == UNION {[1..n -> Letters] : n \in 0..MaxCommentLen}

\* a lower() that leaves every character as it is
LowerAsIs(c) == c

\* str.lower()
Lower(c) ==
    [i \in 1..Len(c) |-> CASE c[i] = "S" -> "s"
                           [] c[i] = "T" -> "t"
                           [] OTHER -> c[i]]

\* the keyword "stop"
StopKeyword == <<"s", "t", "o", "p">>

\* sub in c, for strings
Contains(sub, c) ==
    \E i \in 1..(Len(c) - Len(sub) + 1) : SubSeq(c, i, i + Len(sub) - 1) = sub

\* the calls of the two branches, in the order of the text
StopCalls == <<"Exchange", "connect", "execute_long_stop">>
StoreCalls == <<"get_table", "put_item">>

\* what exchange.connect can give the handler
ConnectResults == {Returns(PyBool(TRUE)), Returns(PyBool(FALSE)), Raises("Exception")}

\* what the handler's other calls can give it: a value, or an exception
CallResults == {Returns(None), Raises("Exception")}

\* receive_trade_signals up to the `if`: the processed signal's
\* order_comment decides the branch
receive_trade_signals ==
    /\ app_pc = "idle"
    /\ app_op' = "receive_trade_signals"
    /\ \E c \in Comments :
        /\ order_comment' = c
        /\ app_pc' = IF Contains(StopKeyword, Lower(c)) THEN StopCalls[1] ELSE StoreCalls[1]
    /\ UNCHANGED <<connect_ret, app_calls, app_ret>>
    /\ UNCHANGED <<conn, base_currency, fills, args, pc, retries, trades, alloc, ret, hist,
                   ords, payload>>

\* the handler makes the next call of the branches' calls q: the handler
\* ends with the exception of a call that raises, or after the last call
AppCall(q, results) ==
    LET i == Len(app_calls) + 1
    IN  /\ app_pc = q[i]
        /\ app_calls' = Append(app_calls, q[i])
        /\ \E r \in results :
            /\ connect_ret' = IF q[i] = "connect" /\ r.kind = "return" THEN r ELSE connect_ret
            /\ IF r.kind = "raise"
               THEN app_ret' = r /\ app_pc' = "done"
               ELSE IF i = Len(q)
               THEN app_ret' = Returns(None) /\ app_pc' = "done"
               ELSE app_ret' = app_ret /\ app_pc' = q[i + 1]
        /\ UNCHANGED <<app_op, order_comment>>
        /\ UNCHANGED <<conn, base_currency, fills, args, pc, retries, trades, alloc, ret, hist,
                       ords, payload>>

\* the stop branch: Exchange(...), exchange.connect(...), whose result the
\* handler drops, and execute_long_stop(...)
receive_trade_signals_stop ==
    /\ app_op = "receive_trade_signals"
    /\ app_pc \in {StopCalls[i] : i \in 1..Len(StopCalls)}
    /\ AppCall(StopCalls, IF app_pc = "connect" THEN ConnectResults ELSE CallResults)

\* the else branch: get_table(table_name) and table.put_item(Item=trade_out)
receive_trade_signals_store ==
    /\ app_op = "receive_trade_signals"
    /\ app_pc \in {StoreCalls[i] : i \in 1..Len(StoreCalls)}
    /\ AppCall(StoreCalls, CallResults)

\* the request is answered
receive_trade_signals_return ==
    /\ app_op = "receive_trade_signals"
    /\ app_pc = "done"
    /\ app_op' = "none"
    /\ app_pc' = "idle"
    /\ order_comment' = <<>>
    /\ connect_ret' = Pending
    /\ app_calls' = <<>>
    /\ app_ret' = Pending
    /\ UNCHANGED <<conn, base_currency, fills, args, pc, retries, trades, alloc, ret, hist,
                   ords, payload>>

\* ---- app.py: the scheduled execute_trade_signals

\* what get_all_recent_signals(utcnow, table_name) answers: no signal, or some
RecentSignals == {<<>>, <<"signal">>}

\* the calls made when there are signals, in the order of the text
BoostCalls == <<"Exchange", "connect", "buy_side_boost">>

\* execute_trade_signals up to the `if trades`
execute_trade_signals ==
    /\ app_pc = "idle"
    /\ app_op' = "execute_trade_signals"
    /\ \E signals \in RecentSignals :
        IF signals # <<>>
        THEN app_pc' = BoostCalls[1] /\ app_ret' = app_ret
        ELSE app_pc' = "done" /\ app_ret' = Returns(None)
    /\ UNCHANGED <<order_comment, connect_ret, app_calls>>
    /\ UNCHANGED <<conn, base_currency, fills, args, pc, retries, trades, alloc, ret, hist,
                   ords, payload>>

\* the `if trades` branch: Exchange(...), exchange.connect(...), whose
\* result the function drops, and buy_side_boost(...)
execute_trade_signals_boost ==
    /\ app_op = "execute_trade_signals"
    /\ app_pc \in {BoostCalls[i] : i \in 1..Len(BoostCalls)}
    /\ AppCall(BoostCalls, IF app_pc = "connect" THEN ConnectResults ELSE CallResults)

\* the scheduled run is over
execute_trade_signals_return ==
    /\ app_op = "execute_trade_signals"
    /\ app_pc = "done"
    /\ app_op' = "none"
    /\ app_pc' = "idle"
    /\ order_comment' = <<>>
    /\ connect_ret' = Pending
    /\ app_calls' = <<>>
    /\ app_ret' = Pending
    /\ UNCHANGED <<conn, base_currency, fills, args, pc, retries, trades, alloc, ret, hist,
                   ords, payload>>

\* an unconnected deployment that no method of the client is running in
InitApp ==
    /\ client = 0
    /\ markets = 0
    /\ base_currency = "USDT"
    /\ exchanges = 0
    /\ fills = [s \in TradeSymbols |-> <<>>]
    /\ Idle
    /\ AppIdle

NextApp ==
    \/ receive_trade_signals
    \/ receive_trade_signals_stop
    \/ receive_trade_signals_store
    \/ receive_trade_signals_return
    \/ execute_trade_signals
    \/ execute_trade_signals_boost
    \/ execute_trade_signals_return

SpecApp == InitApp /\ [][NextApp]_vars

\* ---- the claims

Last(q) == q[Len(q)]
Transient == {"NetworkError", "RequestTimeout"}
Unexpected(e) == e \notin Transient \cup {"ok", "ExchangeError", "no call"}

\* the terminal-failure value of each retry-wrapped method
Sentinel(o) ==
    IF o = "connect" THEN PyBool(FALSE)
    ELSE IF o = "get_bid_ask" THEN Tuple(None, None)
    ELSE None

\* C1: a retry-wrapped method called with max_retries = n >= 1 whose first n
\* passes all end in a transient network error makes exactly n requests, no
\* pass n + 1, raises nothing and returns its terminal-failure value.
C1_ExhaustionReturnsSentinel ==
    (/\ op \in RetryOps
     /\ max_retries >= 1
     /\ Len(log) >= max_retries
     /\ \A i \in 1..max_retries : log[i] \in Transient)
    => /\ Len(log) = max_retries
       /\ attempts = max_retries
       /\ ret.kind # "raise"
       /\ pc \in {"loop", "done"}
       /\ pc = "done" => ret = Returns(Sentinel(op))

C1_Witness ==
    /\ op = "connect"
    /\ max_retries = 3
    /\ log = <<"NetworkError", "NetworkError", "NetworkError">>
    /\ pc = "done"
    /\ ret = Returns(PyBool(FALSE))
    /\ attempts = 3

\* C2: when the first request of connect, create_limit_order,
\* get_total_currency, get_bid_ask, get_last_price or get_account_allocation
\* is rejected by the exchange, the call is over after that one request,
\* with the terminal-failure value, no sleep and no other request.
C2_RejectionEndsAtOnce ==
    (/\ op \in RetryOps \ {"get_most_recent_trade"}
     /\ log # <<>>
     /\ log[1] = "ExchangeError")
    => /\ pc = "done"
       /\ ret = Returns(Sentinel(op))
       /\ Len(log) = 1
       /\ attempts = 1
       /\ sleeps = 0
       /\ calls = 1

C2_Witness ==
    /\ op = "get_account_allocation"
    /\ log = <<"ExchangeError">>
    /\ pc = "done"
    /\ ret = Returns(None)
    /\ calls = 1

\* C3: in every retry-wrapped method, a pass that ends in an error that is
\* neither a network error nor an exchange error is the last pass: the call
\* is over, that error is what the caller gets, and nothing slept for it
\* (every sleep belongs to an earlier, transient, failure).  The same holds
\* for the get_most_recent_trade that get_account_allocation calls.
C3_UnexpectedPropagates ==
    op \in RetryOps
    => /\ \A i \in 1..Len(log) :
            Unexpected(log[i])
            => /\ i = Len(log)
               /\ pc = "done"
               /\ ret = Raises(log[i])
               /\ sleeps = i - 1
               /\ attempts <= i
       /\ Unexpected(sub_last) => pc = "done" /\ ret = Raises(sub_last)

C3_Witness ==
    /\ op = "create_limit_order"
    /\ log = <<"NetworkError", "Exception">>
    /\ pc = "done"
    /\ ret = Raises("Exception")
    /\ sleeps = 1

\* C4: in create_limit_order, once a placement request has timed out while
\* the exchange holds an open order for the symbol, the call is over: it
\* returns that open order and has sent no placement request after the one
\* that timed out.
C4_TimeoutReturnsOpenOrder ==
    (op = "create_limit_order" /\ timeout_at > 0)
    => /\ pc = "done"
       /\ attempts = timeout_at
       /\ ret = Returns(Order(open_orders[1]))

\* what a successful pass returns, read off what the exchange answered
C5_Result ==
    IF op = "connect" THEN ret.val = PyBool(TRUE)
    ELSE IF op = "create_limit_order" THEN ret.val = Order(Len(open_orders))
    ELSE IF op = "get_total_currency"
    THEN ret.val = (IF ~payload.present THEN None
                    ELSE IF payload.total = None THEN [t |-> "Decimal", v |-> 0]
                    ELSE [t |-> "Decimal", v |-> payload.total.v])
    ELSE IF op = "get_bid_ask"
    THEN /\ ret.val.t = "tuple"
         /\ payload.bid = None => ret.val.a = None
         /\ payload.bid # None => ret.val.a = [t |-> "Decimal", v |-> payload.bid.v]
         /\ payload.ask = None => ret.val.b = None
         /\ payload.ask # None => ret.val.b = [t |-> "Decimal", v |-> payload.ask.v]
    ELSE IF op = "get_last_price"
    THEN /\ payload.last = None => ret.val = None
         /\ payload.last # None => ret.val = [t |-> "Decimal", v |-> payload.last.v]
    ELSE IF op = "get_account_allocation" THEN ret.val.t = "dict"
    ELSE ret.val.t = "list"

\* C5: a retry-wrapped method called with max_retries = n never makes more
\* than n requests of its own; when its first k passes end in a transient
\* network error and pass k + 1 succeeds (for get_account_allocation: with
\* every request of that pass answered), it has made exactly k + 1 requests
\* and slept exactly k times, and it returns the result of pass k + 1.
C5_SuccessAfterTransientFailures ==
    op \in RetryOps
    => /\ attempts <= max_retries
       /\ (/\ log # <<>>
           /\ Last(log) = "ok"
           /\ \A i \in 1..(Len(log) - 1) : log[i] \in Transient
           /\ ~sub_failed)
          => /\ attempts = Len(log)
             /\ sleeps = Len(log) - 1
             /\ pc = "done" \/ (op = "get_account_allocation" /\ pc = "for")
             /\ pc = "done" => ret.kind = "return" /\ C5_Result

C5_Witness ==
    /\ op = "get_last_price"
    /\ max_retries = 3
    /\ log = <<"NetworkError", "NetworkError", "ok">>
    /\ pc = "done"
    /\ ret = Returns(Decimal(1))
    /\ sleeps = 2
    /\ attempts = 3
\* ---- the claims about fills

\* get_most_recent_trade has returned what it made of an answered request
Fetched ==
    /\ op = "get_most_recent_trade"
    /\ pc = "done"
    /\ log # <<>>
    /\ Last(log) = "ok"

Suffix(h, j) == SubSeq(h, j, Len(h))

\* the amounts bought and sold, and the cost of the buys, in the first j fills
RECURSIVE Bought(_, _)
Bought(h, j) ==
    IF j = 0 THEN 0 ELSE Bought(h, j - 1) + (IF h[j].side = "buy" THEN h[j].amount ELSE 0)
RECURSIVE Sold(_, _)
Sold(h, j) ==
    IF j = 0 THEN 0 ELSE Sold(h, j - 1) + (IF h[j].side = "sell" THEN h[j].amount ELSE 0)
RECURSIVE CostOfBuys(_, _)
CostOfBuys(h, j) ==
    IF j = 0 THEN 0 ELSE CostOfBuys(h, j - 1) + (IF h[j].side = "buy" THEN h[j].cost ELSE 0)
Net(h, j) == Bought(h, j) - Sold(h, j)

\* C6: what get_most_recent_trade returns for an answered request is a
\* contiguous suffix of the fetched history, in its order, and is empty
\* exactly when the history is empty.
C6_ResultIsSuffix ==
    Fetched
    => /\ ret.kind = "return"
       /\ ret.val.t = "list"
       /\ \E j \in 1..(Len(trades) + 1) : ret.val.l = Suffix(trades, j)
       /\ ret.val.l = <<>> <=> trades = <<>>

C6_Witness ==
    /\ Fetched
    /\ trades = fills[symbol]
    /\ Len(trades) = 3
    /\ Len(ret.val.l) = 2
    /\ ret.val.l = Suffix(trades, 2)

\* C7: for a non-empty history without a sell fill, get_most_recent_trade
\* returns the whole history.
C7_NoSellReturnsAll ==
    (/\ Fetched
     /\ trades # <<>>
     /\ \A i \in 1..Len(trades) : trades[i].side # "sell")
    => ret = Returns(List(trades))

C7_Witness ==
    /\ Fetched
    /\ Len(trades) = 3
    /\ \A i \in 1..3 : trades[i].side = "buy"
    /\ ret = Returns(List(trades))

\* the newest sell fill whose next newer fill is a buy: where the scan from
\* the newest fill stops
IsReversal(h, j) == j < Len(h) /\ h[j].side = "sell" /\ h[j + 1].side = "buy"
HasReversal(h) == \E j \in 1..Len(h) : IsReversal(h, j)
Reversal(h) ==
    CHOOSE j \in 1..Len(h) : IsReversal(h, j) /\ \A k \in (j + 1)..Len(h) : ~IsReversal(h, k)

\* C8 as the claim has it: the returned cycle runs from the sell fill the
\* scan stopped at up to the newest fill.
C8_SliceFromTheSell ==
    (Fetched /\ HasReversal(trades))
    => ret = Returns(List(Suffix(trades, Reversal(trades))))

\* C8: when the scan stops at a sell fill whose next newer fill is a buy,
\* the returned cycle runs from that buy, the fill right after the sell, up
\* to the newest fill; the sell itself is left out.
C8_SliceAfterTheSell ==
    (Fetched /\ HasReversal(trades))
    => ret = Returns(List(Suffix(trades, Reversal(trades) + 1)))

C8_Witness ==
    /\ Fetched
    /\ Len(trades) = 3
    /\ HasReversal(trades)
    /\ Reversal(trades) = 1
    /\ trades[3].side = "sell"
    /\ ret = Returns(List(Suffix(trades, 2)))

\* C9: for a history whose running net amount is never negative, the
\* returned cycle starts at the first fill or right after a fill that left
\* the running net amount at zero.
C9_CutsOnlyWhereFlat ==
    (Fetched /\ trades # <<>> /\ \A j \in 1..Len(trades) : Net(trades, j) >= 0)
    => \E j \in 1..Len(trades) :
          /\ ret = Returns(List(Suffix(trades, j)))
          /\ j = 1 \/ Net(trades, j - 1) = 0

\* get_trade_value_usd has returned
Valued == op = "get_trade_value_usd" /\ pc = "done"

\* C10: for a fill list with a positive bought amount whose net owned
\* amount is a whole number of hundredths of the bought amount,
\* get_trade_value_usd returns (cost of the buys) x (owned / bought), here in
\* hundredths: the whole cost when nothing was sold, 0 when all was sold.
C10_ValueIsProratedCost ==
    Valued
    => LET n == Len(trades)
           bought == Bought(trades, n)
           owned == Net(trades, n)
           cost == CostOfBuys(trades, n)
       IN  (bought > 0 /\ (100 * owned) % bought = 0)
           => /\ ret.kind = "return"
              /\ ret.val.t = "num"
              /\ ret.val.v * bought = 100 * cost * owned
              /\ Sold(trades, n) = 0 => ret.val.v = 100 * cost
              /\ owned = 0 => ret.val.v = 0

C10_Witness ==
    /\ Valued
    /\ Len(trades) = 3
    /\ Bought(trades, 3) = 4
    /\ Sold(trades, 3) = 1
    /\ CostOfBuys(trades, 3) = 3
    /\ ret = Returns(Num(225))
\* C11: for a fill list whose bought amount is zero (no fill, sells only,
\* buys of amount 0) get_trade_value_usd returns 0; the division, which
\* could only raise ZeroDivisionError there, is not reached.
C11_ZeroBoughtReturnsZero ==
    (Valued /\ Bought(trades, Len(trades)) = 0)
    => ret = Returns(Num(0))

C11_Witness ==
    /\ Valued
    /\ Len(trades) = 2
    /\ trades[1].side = "sell" /\ trades[1].amount = 1
    /\ trades[2].side = "buy" /\ trades[2].amount = 0
    /\ ret = Returns(Num(0))
\* ---- the claims about get_account_allocation

\* get_account_allocation has returned a mapping
AllocationReturned ==
    /\ op = "get_account_allocation"
    /\ pc = "done"
    /\ ret.kind = "return"
    /\ ret.val.t = "dict"

\* what the fills the exchange holds for a symbol are worth
ValueHeld(sym) ==
    LET cycle == MostRecentTrade(fills[sym])
    IN  IF cycle = <<>> THEN Num(0) ELSE Num(get_trade_value_usd(cycle))

\* C12: a mapping returned by get_account_allocation has an entry under the
\* client's base currency holding the free balance, and beside it exactly
\* one entry per active strategy currency: 0 without matched fills, else the
\* valuation of the matched cycle.
C12_KeyedByBaseCurrency ==
    AllocationReturned
    => /\ DOMAIN ret.val.d
            = {base_currency} \cup {active_configs[i].currency : i \in 1..Len(active_configs)}
       /\ ret.val.d[base_currency] = payload
       /\ \A i \in 1..Len(active_configs) :
            ret.val.d[active_configs[i].currency] = ValueHeld(active_configs[i].symbol)
\* a step in which the balance request of get_account_allocation ended o
BalanceFetchEnds(o) ==
    /\ op = "get_account_allocation" /\ pc = "loop"
    /\ attempts' = attempts + 1
    /\ Last(log') = o

\* a step in which the fill request made for a strategy ended o
FillFetchEnds(o) ==
    /\ op = "get_account_allocation" /\ pc = "for"
    /\ calls' = calls + 1
    /\ sub_last' = o

\* the computation starts again at the balance request, one attempt used
Restarts ==
    /\ pc' = "loop"
    /\ retries' = retries + 1
    /\ sleeps' = sleeps + 1

\* C13 as stated: a network error in any request of the computation, the
\* balance request or a strategy's fill request, restarts the computation
\* at the balance request and uses one of get_account_allocation's own
\* attempts; the failed request is not retried on its own.
C13_AnyNetworkErrorRestarts ==
    [][\A o \in Transient : (BalanceFetchEnds(o) \/ FillFetchEnds(o)) => Restarts]_vars

\* C13 as the code has it: a network error in the balance request restarts
\* the computation and uses one of get_account_allocation's own attempts; a
\* network error in a strategy's fill request is retried by the
\* get_most_recent_trade call itself, against that call's default of 3
\* attempts, and neither restarts the computation nor uses one of its
\* attempts.
C13_OnlyBalanceErrorRestarts ==
    [][\A o \in Transient :
        /\ BalanceFetchEnds(o) => Restarts
        /\ FillFetchEnds(o)
            => /\ pc' = "for"
               /\ retries' = retries
               /\ attempts' = attempts
               /\ config_i' = config_i
               /\ allocation_dict' = allocation_dict
               /\ sub_retries' = sub_retries + 1
               /\ sub_retries' <= DefaultMaxRetries
               /\ sleeps' = sleeps + 1]_vars

\* the fill request of the second strategy has failed twice, in a
\* computation that a failed balance request had restarted once
C13_Witness ==
    /\ op = "get_account_allocation" /\ pc = "for"
    /\ retries = 1
    /\ config_i = 2
    /\ sub_retries = 2
    /\ sub_last \in Transient
    /\ attempts = 2
\* ---- the claims about the connection state

\* C14: connect returns True only from an attempt whose load_markets
\* answered, and then client and markets are the exchange object and the
\* markets of that attempt; every other step of connect, so every call that
\* returns False or raises, leaves client and markets as they were before
\* the call (None for a client that never connected).
C14_ConnectStoresOnlyOnSuccess ==
    [][(op = "connect" /\ pc = "loop")
        => IF ret' = Returns(PyBool(TRUE))
           THEN /\ Last(log') = "ok"
                /\ attempts' = attempts + 1
                /\ exchanges' = exchanges + 1
                /\ client' = exchanges'
                /\ markets' = exchanges'
           ELSE /\ client' = client
                /\ markets' = markets]_vars

\* a connected client whose second connect was rejected at its second
\* attempt: it keeps the connection of the first call
C14_Witness ==
    /\ op = "connect" /\ pc = "done"
    /\ ret = Returns(PyBool(FALSE))
    /\ log = <<"NetworkError", "ExchangeError">>
    /\ exchanges = 3
    /\ client = 1
    /\ markets = 1
\* C15: once connect has succeeded, no step of any other operation, however
\* it ends, changes client, markets or base_currency.
C15_OthersKeepConnection ==
    [][(client # 0 /\ op \in Ops \ {"connect"})
        => /\ client' = client
           /\ markets' = markets
           /\ base_currency' = base_currency]_vars

\* a connected client whose get_last_price the exchange rejected
C15_Witness ==
    /\ client = 1 /\ markets = 1
    /\ op = "get_last_price" /\ pc = "done"
    /\ Last(log) = "ExchangeError"
    /\ ret = Returns(None)
\* ---- the claims about single methods

TickerOps == {"get_bid_ask", "get_last_price"}

C17_AbsentCurrencyIsNone ==
    (op = "get_total_currency" /\ log # <<>> /\ Last(log) = "ok" /\ ~payload.present)
    => /\ pc = "done"
       /\ ret = Returns(None)
       /\ ret # Returns(Decimal(0))
       /\ attempts = Len(log)
       /\ retries = Len(log) - 1
       /\ sleeps = retries

\* the first request failed, the second was answered without the currency
C17_Witness ==
    /\ op = "get_total_currency" /\ pc = "done"
    /\ log = <<"NetworkError", "ok">>
    /\ ~payload.present
    /\ ret = Returns(None)
\* C18: when the exchange rejects the fill request (ExchangeError),
\* get_most_recent_trade gives its caller a failure value, None or an empty
\* list, at once: it neither goes round again nor raises.
C18_RejectedFetchReturnsSentinel ==
    (op = "get_most_recent_trade" /\ log # <<>> /\ Last(log) = "ExchangeError")
    => /\ pc = "done"
       /\ ret \in {Returns(None), Returns(List(<<>>))}
\* C20: get_account_allocation never returns a mapping that values at 0 a
\* strategy whose fills could not be fetched: an entry of 0 in a returned
\* mapping is the value of the fills the exchange holds; when every attempt
\* of a strategy's get_most_recent_trade fails with a network error the
\* call returns None or raises.
C20_NoZeroForFailedFetch ==
    AllocationReturned
    => \A i \in 1..Len(active_configs) :
        ret.val.d[active_configs[i].currency] = Num(0)
            => ValueHeld(active_configs[i].symbol) = Num(0)
\* ---- the claim about receive_trade_signals

\* the comment holds s, t, o, p in a row, each in either case
HasStopAnyCase(c) ==
    \E i \in 1..(Len(c) - 3) :
        /\ c[i] \in {"s", "S"}
        /\ c[i + 1] \in {"t", "T"}
        /\ c[i + 2] \in {"o", "O"}
        /\ c[i + 3] \in {"p", "P"}

\* the calls made are the first calls of q, and all of q if the handler
\* ended without an exception
RunsBranch(q) ==
    /\ Len(app_calls) <= Len(q)
    /\ app_calls = SubSeq(q, 1, Len(app_calls))
    /\ app_pc \in {"done"} \cup {q[i] : i \in 1..Len(q)}
    /\ app_pc # "done" => app_pc = q[Len(app_calls) + 1]
    /\ app_pc = "done" => (app_calls # <<>> /\ (app_ret.kind = "raise" \/ app_calls = q))

\* C19: a processed signal runs exactly one branch of receive_trade_signals.
\* If its order_comment holds "stop" in any letter case the handler makes
\* the calls of the stop branch (construct the exchange, connect, run the
\* stop-loss execution, each unless the one before raised) and never touches
\* the table; otherwise it makes the calls of the store branch (get the
\* table, put the signal) and never constructs or connects an exchange nor
\* runs an execution.
C19_StopRoutesToExecution ==
    app_op = "receive_trade_signals"
    => IF HasStopAnyCase(order_comment) THEN RunsBranch(StopCalls) ELSE RunsBranch(StoreCalls)

\* "xSTop" ran the whole stop branch
C19_Witness ==
    /\ app_op = "receive_trade_signals"
    /\ app_pc = "done"
    /\ order_comment = <<"x", "S", "T", "o", "p">>
    /\ app_calls = StopCalls
    /\ app_ret = Returns(None)
\* ---- the claim about both entry points

\* the calls that start an order execution
Executions == {"execute_long_stop", "buy_side_boost"}

\* C21: in receive_trade_signals on a stop signal and in
\* execute_trade_signals with recent signals, an order execution
\* (execute_long_stop, buy_side_boost) is started only after
\* exchange.connect has returned True in that invocation; after a connect
\* that returned False none is started.
C21_ExecutionOnlyWhenConnected ==
    (\E i \in 1..Len(app_calls) : app_calls[i] \in Executions)
    => connect_ret = Returns(PyBool(TRUE))
====
